---- MODULE Spec2Model ----
(***************************************************************************)
(* GritVM (src/GritVM.hpp): an accumulator machine with a resizable data   *)
(* memory, an instruction list with a relative cursor and a status         *)
(* register.  The host calls load, run, getDataMem and reset; run is a     *)
(* fetch-evaluate-advance loop, modelled one iteration per step.           *)
(*                                                                         *)
(* The machine is handled as a record (the object's members); the pure     *)
(* operators below are the member functions, and the actions at the end    *)
(* apply them to the variables.  Sequences are 1-based in TLA+, vectors    *)
(* and list positions 0-based in the source: position p of the list is     *)
(* instructMem[p + 1], and position Len(instructMem) is end().             *)
(* Values of type long stay far inside the 64-bit range for the inputs     *)
(* enumerated here, so they are modelled as integers.                      *)
(***************************************************************************)
EXTENDS Integers, Sequences, FiniteSets, TLC

(***************************************************************************)
(* Bounds of the model.                                                    *)
(***************************************************************************)
\* largest jump distance in either direction
MaxJump == 2
\* instructions one run may evaluate before the model stops following it
MaxSteps == 4

(***************************************************************************)
(* The instruction set (the case labels of evaluate and of the handlers).  *)
(***************************************************************************)
NoArgOps == {"CLEAR", "NOOP", "HALT", "OUTPUT"}

MemIndexOps == {"AT", "SET", "ERASE", "ADDMEM", "SUBMEM", "MULMEM", "DIVMEM"}

ConstOps == {"ADDCONST", "SUBCONST", "MULCONST", "DIVCONST"}

MemArithOps == {"ADDMEM", "SUBMEM", "MULMEM", "DIVMEM"}

JumpOps == {"JUMPREL", "JUMPZERO", "JUMPNZERO"}

Mnemonics == NoArgOps \cup MemIndexOps \cup {"INSERT", "CHECKMEM"} \cup ConstOps \cup JumpOps

STATUS == {"WAITING", "READY", "RUNNING", "HALTED", "ERRORED"}

Instruction(op, arg) == [operation |-> op, argument |-> arg]

(***************************************************************************)
(* C++ arithmetic and std::vector operations.                              *)
(***************************************************************************)
Abs(x) == IF x < 0 THEN -x ELSE x

\* long / long: the quotient truncated toward zero (b # 0)
TruncDiv(a, b) ==
    LET q == Abs(a) \div Abs(b)
    IN  IF (a < 0) # (b < 0) THEN -q ELSE q

\* static_cast<size_t>(x) > n for a vector size n: a negative long converts
\* to 2^64 + x, which exceeds every vector size
SizeTGreater(x, n) == x < 0 \/ x > n

\* n < static_cast<size_t>(x) for a vector size n
SizeTLess(n, x) == x < 0 \/ n < x

\* v[i]; outside [0, size) the read is undefined and is caught by the
\* access record of evaluate, the value given here is never relied on
VecAt(v, i) == IF i >= 0 /\ i < Len(v) THEN v[i + 1] ELSE 0

\* v[i] = x
VecSet(v, i, x) == IF i >= 0 /\ i < Len(v) THEN [v EXCEPT ![i + 1] = x] ELSE v

\* insert that puts x at the end whatever the position
VecInsertAtEnd(v, i, x) == IF i >= 0 /\ i <= Len(v) THEN Append(v, x) ELSE v

\* v.insert(v.begin() + i, x)
VecInsert(v, i, x) ==
    IF i >= 0 /\ i <= Len(v)
    THEN SubSeq(v, 1, i) \o <<x>> \o SubSeq(v, i + 1, Len(v))
    ELSE v

\* v.erase(v.begin() + i)
VecErase(v, i) ==
    IF i >= 0 /\ i < Len(v)
    THEN SubSeq(v, 1, i) \o SubSeq(v, i + 2, Len(v))
    ELSE v

(***************************************************************************)
(* What evaluate hands back: the machine after the instruction, the jump   *)
(* distance, and which element of dataMem the instruction touched (kind    *)
(* "none", "index" for operator[] and erase, "insert" for insert) with the *)
(* vector's size at that moment.                                           *)
(***************************************************************************)
NoAccess == [kind |-> "none", index |-> 0, size |-> 0]

IndexAccess(vm, i) == [kind |-> "index", index |-> i, size |-> Len(vm.dataMem)]

InsertAccess(vm, i) == [kind |-> "insert", index |-> i, size |-> Len(vm.dataMem)]

Ret(vm, jump, access) == [vm |-> vm, jump |-> jump, access |-> access]

SetStatus(vm, s) == [vm EXCEPT !.machineStatus = s]

\* reset with dataMem.clear() left out
resetKeepsMemory(vm) ==
    [vm EXCEPT !.accumulator = 0,
               !.instructMem = <<>>,
               !.machineStatus = "WAITING"]

\* reset with accumulator = 0 left out
resetKeepsAccumulator(vm) ==
    [vm EXCEPT !.dataMem = <<>>,
               !.instructMem = <<>>,
               !.machineStatus = "WAITING"]

\* reset with instructMem.clear() left out
resetKeepsInstructions(vm) ==
    [vm EXCEPT !.accumulator = 0,
               !.dataMem = <<>>,
               !.machineStatus = "WAITING"]

\* GritVM::reset, on the members as they are (the iterator is not touched)
reset(vm) ==
    [vm EXCEPT !.accumulator = 0,
               !.dataMem = <<>>,
               !.instructMem = <<>>,
               !.machineStatus = "WAITING"]

\* validateMemoryAccess with <= for <
validateMemoryAccessInclusive(vm, location) ==
    location >= 0 /\ location <= Len(vm.dataMem)

\* GritVM::validateMemoryAccess
validateMemoryAccess(vm, location) ==
    location >= 0 /\ location < Len(vm.dataMem)

\* GritVM::handleConstOperation
handleConstOperation(vm, operation, constant) ==
    CASE operation = "ADDCONST" ->
            Ret([vm EXCEPT !.accumulator = @ + constant], 1, NoAccess)
      [] operation = "SUBCONST" ->
            Ret([vm EXCEPT !.accumulator = @ - constant], 1, NoAccess)
      [] operation = "MULCONST" ->
            Ret([vm EXCEPT !.accumulator = @ * constant], 1, NoAccess)
      [] operation = "DIVCONST" ->
            IF constant = 0
            THEN Ret(SetStatus(vm, "ERRORED"), 1, NoAccess)
            ELSE Ret([vm EXCEPT !.accumulator = TruncDiv(@, constant)], 1, NoAccess)
      [] OTHER -> Ret(SetStatus(vm, "ERRORED"), 1, NoAccess)

\* GritVM::handleMemOperation
handleMemOperation(vm, operation, memLocation) ==
    IF ~validateMemoryAccess(vm, memLocation)
    THEN Ret(SetStatus(vm, "ERRORED"), 1, NoAccess)
    ELSE LET cell == VecAt(vm.dataMem, memLocation)
             acc  == IndexAccess(vm, memLocation)
         IN  CASE operation = "ADDMEM" ->
                     Ret([vm EXCEPT !.accumulator = @ + cell], 1, acc)
               [] operation = "SUBMEM" ->
                     Ret([vm EXCEPT !.accumulator = @ - cell], 1, acc)
               [] operation = "MULMEM" ->
                     Ret([vm EXCEPT !.accumulator = @ * cell], 1, acc)
               [] operation = "DIVMEM" ->
                     IF cell = 0
                     THEN Ret(SetStatus(vm, "ERRORED"), 1, acc)
                     ELSE Ret([vm EXCEPT !.accumulator = TruncDiv(@, cell)], 1, acc)
               [] OTHER -> Ret(SetStatus(vm, "ERRORED"), 1, NoAccess)

\* handleJump testing the distance only where the jump is taken
handleJumpChecksTakenOnly(vm, operation, distance) ==
    LET taken == \/ operation = "JUMPREL"
                 \/ operation = "JUMPZERO" /\ vm.accumulator = 0
                 \/ operation = "JUMPNZERO" /\ vm.accumulator # 0
    IN  IF operation \notin {"JUMPREL", "JUMPZERO", "JUMPNZERO"}
        THEN Ret(SetStatus(vm, "ERRORED"), 1, NoAccess)
        ELSE IF ~taken
             THEN Ret(vm, 1, NoAccess)
             ELSE IF distance = 0
                  THEN Ret(SetStatus(vm, "ERRORED"), 1, NoAccess)
                  ELSE Ret(vm, distance, NoAccess)

\* handleJump with the test of JUMPZERO turned round
handleJumpZeroInverted(vm, operation, distance) ==
    IF distance = 0
    THEN Ret(SetStatus(vm, "ERRORED"), 1, NoAccess)
    ELSE CASE operation = "JUMPREL" -> Ret(vm, distance, NoAccess)
           [] operation = "JUMPZERO" ->
                 Ret(vm, IF vm.accumulator # 0 THEN distance ELSE 1, NoAccess)
           [] operation = "JUMPNZERO" ->
                 Ret(vm, IF vm.accumulator # 0 THEN distance ELSE 1, NoAccess)
           [] OTHER -> Ret(SetStatus(vm, "ERRORED"), 1, NoAccess)

\* handleJump with JUMPNZERO taken whatever the accumulator holds
handleJumpNonZeroAlways(vm, operation, distance) ==
    IF distance = 0
    THEN Ret(SetStatus(vm, "ERRORED"), 1, NoAccess)
    ELSE CASE operation = "JUMPREL" -> Ret(vm, distance, NoAccess)
           [] operation = "JUMPZERO" ->
                 Ret(vm, IF vm.accumulator = 0 THEN distance ELSE 1, NoAccess)
           [] operation = "JUMPNZERO" -> Ret(vm, distance, NoAccess)
           [] OTHER -> Ret(SetStatus(vm, "ERRORED"), 1, NoAccess)

\* GritVM::handleJump
handleJump(vm, operation, distance) ==
    IF distance = 0
    THEN Ret(SetStatus(vm, "ERRORED"), 1, NoAccess)
    ELSE CASE operation = "JUMPREL" -> Ret(vm, distance, NoAccess)
           [] operation = "JUMPZERO" ->
                 Ret(vm, IF vm.accumulator = 0 THEN distance ELSE 1, NoAccess)
           [] operation = "JUMPNZERO" ->
                 Ret(vm, IF vm.accumulator # 0 THEN distance ELSE 1, NoAccess)
           [] OTHER -> Ret(SetStatus(vm, "ERRORED"), 1, NoAccess)

\* GritVM::evaluate
evaluate(vm, inst) ==
    LET op  == inst.operation
        arg == inst.argument
    IN  CASE op = "CLEAR" -> Ret([vm EXCEPT !.accumulator = 0], 1, NoAccess)
          [] op = "AT" ->
                IF ~validateMemoryAccess(vm, arg)
                THEN Ret(SetStatus(vm, "ERRORED"), 1, NoAccess)
                ELSE Ret([vm EXCEPT !.accumulator = VecAt(vm.dataMem, arg)], 1,
                         IndexAccess(vm, arg))
          [] op = "SET" ->
                IF ~validateMemoryAccess(vm, arg)
                THEN Ret(SetStatus(vm, "ERRORED"), 1, NoAccess)
                ELSE Ret([vm EXCEPT !.dataMem = VecSet(@, arg, vm.accumulator)], 1,
                         IndexAccess(vm, arg))
          [] op = "INSERT" ->
                IF SizeTGreater(arg, Len(vm.dataMem))
                THEN Ret(SetStatus(vm, "ERRORED"), 1, NoAccess)
                ELSE Ret([vm EXCEPT !.dataMem = VecInsert(@, arg, vm.accumulator)], 1,
                         InsertAccess(vm, arg))
          [] op = "ERASE" ->
                IF ~validateMemoryAccess(vm, arg)
                THEN Ret(SetStatus(vm, "ERRORED"), 1, NoAccess)
                ELSE Ret([vm EXCEPT !.dataMem = VecErase(@, arg)], 1,
                         IndexAccess(vm, arg))
          [] op \in ConstOps -> handleConstOperation(vm, op, arg)
          [] op \in MemArithOps -> handleMemOperation(vm, op, arg)
          [] op \in JumpOps -> handleJump(vm, op, arg)
          [] op = "NOOP" -> Ret(vm, 1, NoAccess)
          [] op = "HALT" -> Ret(SetStatus(vm, "HALTED"), 1, NoAccess)
          [] op = "OUTPUT" ->
                Ret([vm EXCEPT !.out = Append(@, vm.accumulator)], 1, NoAccess)
          [] op = "CHECKMEM" ->
                IF SizeTLess(Len(vm.dataMem), arg)
                THEN Ret(SetStatus(vm, "ERRORED"), 1, NoAccess)
                ELSE Ret(vm, 1, NoAccess)
          [] OTHER -> Ret(SetStatus(vm, "ERRORED"), 1, NoAccess)

\* the first loop of advance using up the distance without moving
StepForwardStalls(cur, jumpDistance, end) ==
    IF jumpDistance > 0 THEN <<cur, 0>> ELSE <<cur, jumpDistance>>

\* the first loop of advance without the test against end()
StepForwardOvershoots(cur, jumpDistance, end) ==
    IF jumpDistance > 0
    THEN <<cur + jumpDistance, 0>>
    ELSE <<cur, jumpDistance>>

\* the first loop of advance: ++currentInstruct while distance is left and
\* the cursor is not end(); yields the cursor and the distance left
RECURSIVE StepForward(_, _, _)
StepForward(cur, jumpDistance, end) ==
    IF jumpDistance > 0 /\ cur # end
    THEN StepForward(cur + 1, jumpDistance - 1, end)
    ELSE <<cur, jumpDistance>>

\* the second loop of advance staying put where the distance reaches
\* beyond begin()
StepBackwardRefusesOverrun(cur, jumpDistance) ==
    IF jumpDistance < 0 /\ cur + jumpDistance >= 0
    THEN cur + jumpDistance
    ELSE cur

\* the second loop of advance: --currentInstruct while distance is left and
\* the cursor is not begin()
RECURSIVE StepBackward(_, _)
StepBackward(cur, jumpDistance) ==
    IF jumpDistance < 0 /\ cur # 0
    THEN StepBackward(cur - 1, jumpDistance + 1)
    ELSE cur

\* advance without the test for end() after the loops
advanceLeavesEndRunning(vm, jumpDistance) ==
    IF jumpDistance = 0
    THEN SetStatus(vm, "ERRORED")
    ELSE LET end == Len(vm.instructMem)
             fwd == StepForward(vm.currentInstruct, jumpDistance, end)
         IN  [vm EXCEPT !.currentInstruct = StepBackward(fwd[1], fwd[2])]

\* GritVM::advance
advance(vm, jumpDistance) ==
    IF jumpDistance = 0
    THEN SetStatus(vm, "ERRORED")
    ELSE LET end == Len(vm.instructMem)
             fwd == StepForward(vm.currentInstruct, jumpDistance, end)
             cur == StepBackward(fwd[1], fwd[2])
         IN  [vm EXCEPT !.currentInstruct = cur,
                        !.machineStatus = IF cur = end THEN "HALTED" ELSE @]

(***************************************************************************)
(* Program text.  A source is a sequence of lines; a line is its first     *)
(* word and the integer after it.  The empty line has text "", a comment   *)
(* has text "#"; any other text goes to GVMHelper::parseInstruction, which *)
(* decodes a mnemonic of the instruction set and answers                   *)
(* UNKNOWN_INSTRUCTION for anything else.                                  *)
(***************************************************************************)
Line(text, arg) == [text |-> text, arg |-> arg]

\* GVMHelper::parseInstruction (GritVMBase.hpp, not among the sources)
parseInstruction(line) ==
    IF line.text \in Mnemonics
    THEN Instruction(line.text, line.arg)
    ELSE Instruction("UNKNOWN_INSTRUCTION", 0)

\* the test of the getline loop that skips a line
Skipped(line) == line.text = "" \/ line.text = "#"

\* the getline loop passing over an unknown instruction instead of returning
RECURSIVE ReadLinesKeepsGoing(_, _, _)
ReadLinesKeepsGoing(lines, i, pushed) ==
    IF i > Len(lines)
    THEN [instructMem |-> pushed, unknown |-> FALSE]
    ELSE IF Skipped(lines[i])
         THEN ReadLinesKeepsGoing(lines, i + 1, pushed)
         ELSE LET inst == parseInstruction(lines[i])
              IN  IF inst.operation = "UNKNOWN_INSTRUCTION"
                  THEN ReadLinesKeepsGoing(lines, i + 1, pushed)
                  ELSE ReadLinesKeepsGoing(lines, i + 1, Append(pushed, inst))

\* the getline loop of load over the lines from position i on: the
\* instructions pushed so far and whether the loop returned on an unknown one
RECURSIVE ReadLines(_, _, _)
ReadLines(lines, i, pushed) ==
    IF i > Len(lines)
    THEN [instructMem |-> pushed, unknown |-> FALSE]
    ELSE IF Skipped(lines[i])
         THEN ReadLines(lines, i + 1, pushed)
         ELSE LET inst == parseInstruction(lines[i])
              IN  IF inst.operation = "UNKNOWN_INSTRUCTION"
                  THEN [instructMem |-> pushed, unknown |-> TRUE]
                  ELSE ReadLines(lines, i + 1, Append(pushed, inst))

\* the part of load past the guard and the opening of the file, with the
\* initial memory appended to dataMem instead of assigned
loadFileAppendsMemory(vm, lines, initialMemory) ==
    LET read == ReadLines(lines, 1, <<>>)
    IN  IF read.unknown
        THEN [vm  |-> [vm EXCEPT !.instructMem = read.instructMem,
                                 !.machineStatus = "ERRORED"],
              ret |-> "ERRORED"]
        ELSE LET st == IF read.instructMem = <<>> THEN "WAITING" ELSE "READY"
             IN  [vm  |-> [vm EXCEPT
                             !.instructMem = read.instructMem,
                             !.dataMem = @ \o initialMemory,
                             !.machineStatus = st,
                             !.currentInstruct =
                                 IF read.instructMem # <<>> THEN 0 ELSE @],
                  ret |-> st]

\* the part of GritVM::load past the guard and the opening of the file: the
\* machine, and the status returned
loadFile(vm, lines, initialMemory) ==
    LET read == ReadLines(lines, 1, <<>>)
    IN  IF read.unknown
        THEN [vm  |-> [vm EXCEPT !.instructMem = read.instructMem,
                                 !.machineStatus = "ERRORED"],
              ret |-> "ERRORED"]
        ELSE LET st == IF read.instructMem = <<>> THEN "WAITING" ELSE "READY"
             IN  [vm  |-> [vm EXCEPT
                             !.instructMem = read.instructMem,
                             !.dataMem = initialMemory,
                             !.machineStatus = st,
                             !.currentInstruct =
                                 IF read.instructMem # <<>> THEN 0 ELSE @],
                  ret |-> st]

\* load without its status guard
loadNoGuard(vm, lines, initialMemory, readable) ==
    IF ~readable
    THEN [vm |-> vm, ret |-> "THROWN"]
    ELSE loadFile(vm, lines, initialMemory)

\* GritVM::load; the answer is the machine and what the call returned
\* ("THROWN" when the file cannot be opened)
load(vm, lines, initialMemory, readable) ==
    IF vm.machineStatus # "WAITING"
    THEN [vm |-> vm, ret |-> vm.machineStatus]
    ELSE IF ~readable
         THEN [vm |-> vm, ret |-> "THROWN"]
         ELSE loadFile(vm, lines, initialMemory)

\* run with a guard that turns away only a WAITING machine
runEnterUnlessWaiting(vm) ==
    IF vm.machineStatus = "WAITING"
    THEN vm
    ELSE [vm EXCEPT !.machineStatus = "RUNNING", !.currentInstruct = 0]

\* run with a guard that lets a HALTED machine run again
runEnterRerunsHalted(vm) ==
    IF vm.machineStatus \notin {"READY", "HALTED"}
    THEN vm
    ELSE [vm EXCEPT !.machineStatus = "RUNNING", !.currentInstruct = 0]

\* the head of run: the status guard, then RUNNING and the cursor at begin()
runEnter(vm) ==
    IF vm.machineStatus # "READY"
    THEN vm
    ELSE [vm EXCEPT !.machineStatus = "RUNNING", !.currentInstruct = 0]

\* the iteration without the test before advance
runIterationAlwaysAdvances(vm, inst) ==
    LET ev == evaluate(vm, inst)
    IN  [vm |-> advance(ev.vm, ev.jump), jump |-> ev.jump, access |-> ev.access]

\* the iteration with what the instruction wrote to std::cout lost
runIterationDropsOutput(vm, inst) ==
    LET ev == evaluate(vm, inst)
        kept == [ev.vm EXCEPT !.out = vm.out]
    IN  IF kept.machineStatus = "RUNNING"
        THEN [vm |-> advance(kept, ev.jump), jump |-> ev.jump, access |-> ev.access]
        ELSE [vm |-> kept, jump |-> ev.jump, access |-> ev.access]

\* one iteration of run's loop on instruction inst: evaluate, then advance
\* only if the status is still RUNNING
runIteration(vm, inst) ==
    LET ev == evaluate(vm, inst)
    IN  IF ev.vm.machineStatus = "RUNNING"
        THEN [vm |-> advance(ev.vm, ev.jump), jump |-> ev.jump, access |-> ev.access]
        ELSE ev

\* GritVM::getDataMem
getDataMem(vm) == vm.dataMem

(***************************************************************************)
(* Inputs.  A source is an optional setup line, the line under study and   *)
(* an optional closing line, or the empty file; this holds the three       *)
(* programs the specification names ([AT 0, OUTPUT, HALT],                 *)
(* [ADDCONST 5, DIVCONST 0, HALT] and [CLEAR, JUMPZERO -1]).               *)
(***************************************************************************)
\* initial memories: empty, one cell, two cells of which one is zero
Memories == {<<>>, <<42>>, <<-3, 0>>}

\* arguments of the memory operations: every index of those memories, one
\* below, and the sizes themselves
IndexArgs == -1 .. 2

ConstArgs == {-2, 0, 5}

JumpArgs == -MaxJump .. MaxJump

SourceLines ==
    {Line(op, 0) : op \in NoArgOps \cup {"", "#", "BOGUS"}}
    \cup {Line(op, a) : op \in MemIndexOps \cup {"INSERT", "CHECKMEM"}, a \in IndexArgs}
    \cup {Line(op, a) : op \in ConstOps, a \in ConstArgs}
    \cup {Line(op, a) : op \in JumpOps, a \in JumpArgs}

\* what may precede the line under study: nothing, or a line that sets the
\* accumulator or grows the memory
SetupLines ==
    {<<>>, <<Line("CLEAR", 0)>>, <<Line("AT", 0)>>, <<Line("ADDCONST", 5)>>,
     <<Line("ADDCONST", -2)>>, <<Line("INSERT", 0)>>}

\* what may follow it: nothing, a line that shows the accumulator, a halt or
\* a jump back
ClosingLines ==
    {<<>>, <<Line("OUTPUT", 0)>>, <<Line("HALT", 0)>>, <<Line("JUMPREL", -2)>>}

Sources ==
    {<<>>} \cup {s \o <<l>> \o c : s \in SetupLines, l \in SourceLines, c \in ClosingLines}

ExampleOutput == <<Line("AT", 0), Line("OUTPUT", 0), Line("HALT", 0)>>

ExampleDivZero == <<Line("ADDCONST", 5), Line("DIVCONST", 0), Line("HALT", 0)>>

ExampleLoop == <<Line("CLEAR", 0), Line("JUMPZERO", -1)>>

\* the sources tried on a machine that is not WAITING, where load returns
\* at its guard before it looks at either argument: an undecodable one and
\* a well-formed one
RejectedSources == {<<Line("BOGUS", 0)>>, ExampleOutput}

\* the positions of a list of up to three instructions, end() included
Positions == 0 .. 3

(***************************************************************************)
(* State.  The first five variables are the members of GritVM.  output is  *)
(* what the host has captured from std::cout for the program in hand (the  *)
(* host starts a new capture when it calls reset).  The others record the  *)
(* calls.  lastCall is the last call of the host: the status it found,     *)
(* what it returned ("PENDING" while run is in its loop, "THROWN" for the  *)
(* exception of load) and the arguments of a load that went past the       *)
(* guard and opened its file.  lastAccess is the dataMem access            *)
(* of the last instruction evaluated, evals the number of instructions the *)
(* current run has evaluated.  life records, since the last reset, how     *)
(* many loads were accepted (2 stands for two or more), the instructions   *)
(* the latest of them decoded, whether it stopped at an undecodable line,  *)
(* and the memory it was given, whether a run was accepted, and whether    *)
(* the machine had been reset out of HALTED or ERRORED before.             *)
(***************************************************************************)
VARIABLES machineStatus, instructMem, dataMem, accumulator, currentInstruct,
          output, lastCall, lastAccess, evals, life

vars == <<machineStatus, instructMem, dataMem, accumulator, currentInstruct,
          output, lastCall, lastAccess, evals, life>>

VM == [machineStatus   |-> machineStatus,
       instructMem     |-> instructMem,
       dataMem         |-> dataMem,
       accumulator     |-> accumulator,
       currentInstruct |-> currentInstruct,
       out             |-> output]

SetVM(vm) ==
    /\ machineStatus' = vm.machineStatus
    /\ instructMem' = vm.instructMem
    /\ dataMem' = vm.dataMem
    /\ accumulator' = vm.accumulator
    /\ currentInstruct' = vm.currentInstruct
    /\ output' = vm.out

Call(op, pre, ret, src, mem) ==
    [op |-> op, pre |-> pre, ret |-> ret, src |-> src, mem |-> mem]

NewLife(reused) ==
    [loads |-> 0, ran |-> FALSE, reused |-> reused, prog |-> <<>>, unknown |-> FALSE,
     mem |-> <<>>]

\* the members before the constructor body runs: the containers are empty,
\* the accumulator and the status are not initialised and the iterator holds
\* no position of the list, so these three may hold anything
Unconstructed(cur, acc, status) ==
    [machineStatus |-> status, instructMem |-> <<>>, dataMem |-> <<>>,
     accumulator |-> acc, currentInstruct |-> cur, out |-> <<>>]

\* values an uninitialised long may hold
Indeterminate == {-3, 0, 42}

\* GritVM::GritVM
Init ==
    \E cur \in Positions, acc \in Indeterminate, status \in STATUS :
        /\ LET vm == reset(Unconstructed(cur, acc, status))
           IN  /\ machineStatus = vm.machineStatus
               /\ instructMem = vm.instructMem
               /\ dataMem = vm.dataMem
               /\ accumulator = vm.accumulator
               /\ currentInstruct = vm.currentInstruct
               /\ output = vm.out
        /\ lastCall = Call("GritVM", "WAITING", "WAITING", <<>>, <<>>)
        /\ lastAccess = NoAccess
        /\ evals = 0
        /\ life = NewLife(FALSE)

\* the host calls only between runs: run returns before the next call
Idle == machineStatus # "RUNNING"

\* the host calls load; a file that cannot be opened has no lines
Load(lines, initialMemory, readable) ==
    /\ Idle
    /\ LET r == load(VM, lines, initialMemory, readable)
           accepted == machineStatus = "WAITING" /\ readable
       IN  /\ SetVM(r.vm)
           /\ lastCall' = IF accepted
                          THEN Call("load", machineStatus, r.ret, lines, initialMemory)
                          ELSE Call("load", machineStatus, r.ret, <<>>, <<>>)
           /\ life' = IF accepted
                      THEN [life EXCEPT !.loads = IF @ = 0 THEN 1 ELSE 2,
                                        !.prog = ReadLines(lines, 1, <<>>).instructMem,
                                        !.unknown = ReadLines(lines, 1, <<>>).unknown,
                                        !.mem = initialMemory]
                      ELSE life
    /\ UNCHANGED <<lastAccess, evals>>

\* the host calls run: the guard, or the entry into the loop
Run ==
    /\ Idle
    /\ SetVM(runEnter(VM))
    /\ IF machineStatus = "READY"
       THEN /\ lastCall' = Call("run", machineStatus, "PENDING", <<>>, <<>>)
            /\ life' = [life EXCEPT !.ran = TRUE]
       ELSE /\ lastCall' = Call("run", machineStatus, machineStatus, <<>>, <<>>)
            /\ life' = life
    /\ UNCHANGED <<lastAccess, evals>>

\* the instruction *currentInstruct; at end() the dereference is undefined
\* and may yield anything
Fetched ==
    IF currentInstruct >= 0 /\ currentInstruct < Len(instructMem)
    THEN {instructMem[currentInstruct + 1]}
    ELSE {parseInstruction(l) : l \in SourceLines}

\* one iteration of the loop of run; run returns when the status is no
\* longer RUNNING
RunStep ==
    /\ machineStatus = "RUNNING"
    /\ evals < MaxSteps
    /\ \E inst \in Fetched :
          LET r == runIteration(VM, inst)
          IN  /\ SetVM(r.vm)
              /\ lastAccess' = r.access
              /\ lastCall' = IF r.vm.machineStatus # "RUNNING"
                             THEN [lastCall EXCEPT !.ret = r.vm.machineStatus]
                             ELSE lastCall
    /\ evals' = evals + 1
    /\ UNCHANGED life

\* the host calls getDataMem: a copy is returned and nothing changes
GetDataMem ==
    /\ Idle
    /\ getDataMem(VM) = dataMem
    /\ UNCHANGED vars

Reset ==
    /\ Idle
    /\ LET vm == reset(VM)
       IN  /\ SetVM([vm EXCEPT !.out = <<>>])
           /\ lastCall' = Call("reset", machineStatus, vm.machineStatus, <<>>, <<>>)
    /\ lastAccess' = NoAccess
    /\ evals' = 0
    /\ life' = NewLife(life.reused \/ machineStatus \in {"HALTED", "ERRORED"})

\* the inputs of a load: the file cannot be opened, or it holds a source
\* (any of Sources where load reads it, one of RejectedSources where it
\* returns at its guard)
LoadInputs ==
    {<<<<>>, m, FALSE>> : m \in Memories}
    \cup {<<s, m, TRUE>> :
            s \in (IF machineStatus = "WAITING" THEN Sources ELSE RejectedSources),
            m \in Memories}

Next ==
    \/ \E in \in LoadInputs : Load(in[1], in[2], in[3])
    \/ Run
    \/ RunStep
    \/ GetDataMem
    \/ Reset

Spec == Init /\ [][Next]_vars

\* run does not pause: while the status is RUNNING its loop takes the next
\* iteration
LiveSpec == Spec /\ WF_vars(RunStep)

(***************************************************************************)
(* Vocabulary of the properties.                                           *)
(***************************************************************************)
\* the step is a call of load / of run by the host (from a state that is not
\* RUNNING only the host acts, and each call leaves its name in lastCall; a
\* getDataMem in between changes nothing at all)
LoadCalled == machineStatus # "RUNNING" /\ lastCall'.op = "load"

RunCalled == machineStatus # "RUNNING" /\ lastCall'.op = "run"

\* the state is the one a load that went past its guard and opened its file
\* has just returned in
LoadReturned ==
    lastCall.op = "load" /\ lastCall.pre = "WAITING" /\ lastCall.ret # "THROWN"

\* the step evaluates the instruction under the cursor
Evaluating == machineStatus = "RUNNING" /\ currentInstruct < Len(instructMem)

Current == instructMem[currentInstruct + 1]

(***************************************************************************)
(* C1: a load on a machine that is READY, HALTED or ERRORED returns the    *)
(* status it found and changes neither the status, the instructions, the   *)
(* data memory, the accumulator nor the cursor.                            *)
(***************************************************************************)
C1_LoadRejectedIsNoOp ==
    [][(LoadCalled /\ machineStatus # "WAITING") =>
          /\ lastCall'.ret = machineStatus
          /\ machineStatus' = machineStatus
          /\ instructMem' = instructMem
          /\ dataMem' = dataMem
          /\ accumulator' = accumulator
          /\ currentInstruct' = currentInstruct]_vars

\* a load has just been refused by a HALTED machine that holds a program
\* and a memory
C1_Witness ==
    /\ lastCall.op = "load" /\ lastCall.pre = "HALTED" /\ lastCall.ret = "HALTED"
    /\ machineStatus = "HALTED"
    /\ instructMem # <<>> /\ dataMem # <<>> /\ accumulator # 0

(***************************************************************************)
(* C2: a run on a machine that is WAITING, HALTED or ERRORED returns the   *)
(* status it found, evaluates no instruction, emits nothing and changes    *)
(* neither the status, the data memory, the accumulator nor the            *)
(* instructions; so the instructions an ERRORED load left behind are       *)
(* never executed.                                                         *)
(***************************************************************************)
C2_RunRejectedIsNoOp ==
    [][(RunCalled /\ machineStatus # "READY") =>
          /\ lastCall'.ret = machineStatus
          /\ machineStatus' = machineStatus
          /\ evals' = evals
          /\ lastAccess' = lastAccess
          /\ output' = output
          /\ dataMem' = dataMem
          /\ accumulator' = accumulator
          /\ instructMem' = instructMem]_vars

\* a run has just been refused after a load that stopped at an undecodable
\* line with an instruction already stored
C2_Witness ==
    /\ lastCall.op = "run" /\ lastCall.pre = "ERRORED" /\ lastCall.ret = "ERRORED"
    /\ machineStatus = "ERRORED"
    /\ ~life.ran /\ life.loads = 1
    /\ instructMem # <<>> /\ evals = 0 /\ output = <<>>

(***************************************************************************)
(* C3: the status changes only along WAITING -> READY, WAITING -> ERRORED  *)
(* by load, READY -> RUNNING by run, RUNNING -> HALTED, RUNNING -> ERRORED *)
(* by the loop of run, and any -> WAITING by reset (where it does not      *)
(* change, it stays); and when a run that found READY returns, it returns  *)
(* the machine's status, which is HALTED or ERRORED.                       *)
(***************************************************************************)
StatusEdges ==
    {<<"WAITING", "READY", "load">>, <<"WAITING", "ERRORED", "load">>,
     <<"READY", "RUNNING", "run">>,
     <<"RUNNING", "HALTED", "loop">>, <<"RUNNING", "ERRORED", "loop">>}
    \cup {<<s, "WAITING", "reset">> : s \in STATUS \ {"RUNNING"}}

C3_StatusEdges ==
    [][/\ machineStatus' # machineStatus =>
            <<machineStatus, machineStatus',
              IF machineStatus = "RUNNING" THEN "loop" ELSE lastCall'.op>> \in StatusEdges
       /\ (lastCall'.op = "run" /\ lastCall'.pre = "READY" /\ lastCall'.ret # "PENDING") =>
            /\ lastCall'.ret = machineStatus'
            /\ machineStatus' \in {"HALTED", "ERRORED"}]_vars

\* a run that found READY has returned HALTED after evaluating instructions
C3_Witness ==
    /\ lastCall.op = "run" /\ lastCall.pre = "READY" /\ lastCall.ret = "HALTED"
    /\ machineStatus = "HALTED" /\ evals > 1

(***************************************************************************)
(* C4: a load that reads its source returns ERRORED exactly when a line    *)
(* that is neither empty nor a comment is undecodable, WAITING exactly     *)
(* when no line is left after dropping empty lines and comments, and       *)
(* READY exactly when lines are left and all decode; on READY the stored   *)
(* instructions are the decoded lines in source order.                     *)
(***************************************************************************)
\* an empty line or a comment
Ignored(l) == l.text \in {"", "#"}

Filtered(lines) == SelectSeq(lines, LAMBDA l : ~Ignored(l))

Decoded(lines) ==
    [i \in 1 .. Len(Filtered(lines)) |-> parseInstruction(Filtered(lines)[i])]

HasUnknown(lines) ==
    \E i \in 1 .. Len(Decoded(lines)) :
        Decoded(lines)[i].operation = "UNKNOWN_INSTRUCTION"

C4_LoadClassifies ==
    LoadReturned =>
        /\ machineStatus = lastCall.ret
        /\ lastCall.ret = "ERRORED" <=> HasUnknown(lastCall.src)
        /\ lastCall.ret = "WAITING" <=> Filtered(lastCall.src) = <<>>
        /\ lastCall.ret = "READY" <=>
              (Filtered(lastCall.src) # <<>> /\ ~HasUnknown(lastCall.src))
        /\ lastCall.ret = "READY" => instructMem = Decoded(lastCall.src)

\* a load has returned READY for a source of a comment and two instructions
C4_Witness ==
    /\ LoadReturned /\ lastCall.ret = "READY"
    /\ Len(lastCall.src) = 3 /\ Len(instructMem) = 2
    /\ instructMem[1] # instructMem[2]

(***************************************************************************)
(* C5, as claimed: after every load that reads its source, getDataMem      *)
(* answers the initial memory supplied, whichever status the load          *)
(* returned.                                                               *)
(***************************************************************************)
C5_AsClaimed == LoadReturned => getDataMem(VM) = lastCall.mem

(***************************************************************************)
(* C5, amended: after a load that reads its source and returns READY or    *)
(* WAITING, getDataMem answers the initial memory supplied, whatever an    *)
(* earlier load had installed; a load that returns ERRORED leaves the data *)
(* memory as it was before the call.                                       *)
(***************************************************************************)
C5_LoadReplacesMemory ==
    [][(LoadCalled /\ machineStatus = "WAITING" /\ LoadReturned') =>
          IF lastCall'.ret \in {"READY", "WAITING"}
          THEN getDataMem(VM)' = lastCall'.mem
          ELSE lastCall'.ret = "ERRORED" /\ getDataMem(VM)' = getDataMem(VM)]_vars

\* a second load since the reset has returned READY and its memory is the
\* one it was given
C5_Witness ==
    /\ LoadReturned /\ lastCall.ret = "READY"
    /\ life.loads = 2
    /\ lastCall.mem # <<>> /\ getDataMem(VM) = lastCall.mem

(***************************************************************************)
(* C6: right after construction and right after any reset the status is    *)
(* WAITING, the accumulator 0, the data memory and the instructions are    *)
(* empty, and the call returned WAITING.                                   *)
(***************************************************************************)
C6_Baseline ==
    lastCall.op \in {"GritVM", "reset"} =>
        /\ machineStatus = "WAITING"
        /\ accumulator = 0
        /\ dataMem = <<>>
        /\ instructMem = <<>>
        /\ lastCall.ret = "WAITING"

\* a reset has just been made on a HALTED machine
C6_Witness ==
    /\ lastCall.op = "reset" /\ lastCall.pre = "HALTED"
    /\ machineStatus = "WAITING" /\ life.reused

(***************************************************************************)
(* C7: once the machine has been reset out of HALTED or ERRORED, the one   *)
(* load made since the latest reset and the run after it, accepted or      *)
(* refused, return what they return on a machine just constructed, and     *)
(* leave the same status, instructions, data memory, accumulator and       *)
(* output (and, in a run, cursor) after every instruction of the run.      *)
(***************************************************************************)
\* a machine just constructed
Fresh == reset(Unconstructed(0, 0, "WAITING"))

Observed(vm) ==
    <<vm.machineStatus, vm.instructMem, vm.dataMem, vm.accumulator, vm.out>>

\* a source that decodes to the instructions, followed by an undecodable
\* line if the load stopped at one
Unparse(prog, unknown) ==
    [i \in 1 .. Len(prog) |-> Line(prog[i].operation, prog[i].argument)]
    \o (IF unknown THEN <<Line("BOGUS", 0)>> ELSE <<>>)

\* the machine after k more iterations of the loop of run
RECURSIVE Iterate(_, _)
Iterate(vm, k) ==
    IF k = 0 \/ vm.machineStatus # "RUNNING" \/ vm.currentInstruct >= Len(vm.instructMem)
    THEN vm
    ELSE Iterate(runIteration(vm, vm.instructMem[vm.currentInstruct + 1]).vm, k - 1)

\* a machine just constructed, after the load recorded in life
FreshLoad == load(Fresh, Unparse(life.prog, life.unknown), life.mem, TRUE)

\* the same, after run and k evaluations
FreshRun(k) == Iterate(runEnter(FreshLoad.vm), k)

C7_ResetLikeFresh ==
    (life.reused /\ life.loads = 1) =>
        /\ LoadReturned =>
              LET f == load(Fresh, lastCall.src, lastCall.mem, TRUE)
              IN  Observed(VM) = Observed(f.vm) /\ lastCall.ret = f.ret
        /\ ~life.ran =>
              /\ Observed(VM) = Observed(FreshLoad.vm)
              /\ lastCall.op = "run" => lastCall.ret = runEnter(FreshLoad.vm).machineStatus
        /\ life.ran =>
              /\ Observed(VM) = Observed(FreshRun(evals))
              /\ currentInstruct = FreshRun(evals).currentInstruct
              /\ (lastCall.op = "run" /\ lastCall.ret # "PENDING") =>
                    lastCall.ret = FreshRun(evals).machineStatus

\* a machine reset out of a terminal status has run a program to HALTED and
\* emitted output
C7_Witness ==
    /\ life.reused /\ life.loads = 1 /\ life.ran
    /\ machineStatus = "HALTED" /\ output # <<>> /\ accumulator # 0

(***************************************************************************)
(* C8: AT, SET, ERASE, ADDMEM, SUBMEM, MULMEM and DIVMEM with argument a   *)
(* on a memory of n cells end ERRORED exactly when a < 0 or a >= n (DIVMEM *)
(* also when cell a holds 0); INSERT ends ERRORED exactly when a < 0 or    *)
(* a > n, and with a = n appends the accumulator; and every element an     *)
(* instruction reads, writes or erases has an index in [0, n), every       *)
(* insertion a position in [0, n].                                         *)
(***************************************************************************)
C8_MemoryBounds ==
    [][Evaluating =>
          LET op == Current.operation
              a  == Current.argument
              n  == Len(dataMem)
              errored == machineStatus' = "ERRORED"
          IN  /\ op \in MemIndexOps \ {"DIVMEM"} => (errored <=> (a < 0 \/ a >= n))
              /\ op = "DIVMEM" => (errored <=> (a < 0 \/ a >= n \/ dataMem[a + 1] = 0))
              /\ op = "INSERT" =>
                    /\ errored <=> (a < 0 \/ a > n)
                    /\ a = n => dataMem' = Append(dataMem, accumulator)
              /\ lastAccess'.kind = "index" =>
                    (lastAccess'.index >= 0 /\ lastAccess'.index < lastAccess'.size)
              /\ lastAccess'.kind = "insert" =>
                    (lastAccess'.index >= 0 /\ lastAccess'.index <= lastAccess'.size)
              /\ lastAccess'.kind # "none" => lastAccess'.size = n]_vars

\* an INSERT at the length of a non-empty memory has appended
C8_Witness ==
    /\ lastAccess.kind = "insert" /\ lastAccess.index = lastAccess.size
    /\ lastAccess.size > 0
    /\ Len(dataMem) = lastAccess.size + 1
    /\ machineStatus # "ERRORED"

(***************************************************************************)
(* C9: an instruction that divides by a zero constant or a zero cell,      *)
(* jumps by zero, addresses a cell out of bounds or checks for more        *)
(* memory than there is ends ERRORED; and whenever an iteration of the     *)
(* loop ends ERRORED, run returns ERRORED with the cursor, the accumulator *)
(* the data memory and the output as they were before the instruction.     *)
(* [ADDCONST 5, DIVCONST 0, HALT] ends ERRORED after two evaluations with  *)
(* accumulator 5 and the cursor on DIVCONST.                               *)
(***************************************************************************)
SignalsError(inst, acc, mem) ==
    LET op == inst.operation
        a  == inst.argument
        n  == Len(mem)
    IN  \/ op \in MemIndexOps /\ (a < 0 \/ a >= n)
        \/ op = "INSERT" /\ (a < 0 \/ a > n)
        \/ op = "DIVCONST" /\ a = 0
        \/ op = "DIVMEM" /\ a >= 0 /\ a < n /\ mem[a + 1] = 0
        \/ op \in JumpOps /\ a = 0
        \/ op = "CHECKMEM" /\ n < a
        \/ op \notin Mnemonics

C9_ErrorStopsInPlace ==
    [][/\ (Evaluating /\ SignalsError(Current, accumulator, dataMem)) =>
            machineStatus' = "ERRORED"
       /\ (machineStatus = "RUNNING" /\ machineStatus' = "ERRORED") =>
            /\ lastCall'.ret = "ERRORED"
            /\ currentInstruct' = currentInstruct
            /\ accumulator' = accumulator
            /\ dataMem' = dataMem
            /\ output' = output
       /\ (life'.ran /\ life'.prog = Decoded(ExampleDivZero)
             /\ machineStatus' # "RUNNING") =>
            /\ machineStatus' = "ERRORED"
            /\ accumulator' = 5
            /\ evals' = 2
            /\ currentInstruct' = 1]_vars

\* [ADDCONST 5, DIVCONST 0, HALT] has ended ERRORED with accumulator 5
C9_Witness ==
    /\ life.ran /\ life.prog = Decoded(ExampleDivZero)
    /\ machineStatus = "ERRORED" /\ lastCall.ret = "ERRORED"
    /\ accumulator = 5 /\ evals = 2

(***************************************************************************)
(* C10: JUMPREL, JUMPZERO and JUMPNZERO with argument 0 end ERRORED        *)
(* whatever the accumulator holds, the cursor staying where it is; and no  *)
(* instruction that leaves the status RUNNING yields a step of zero.       *)
(***************************************************************************)
C10_ZeroJumpErrors ==
    [][Evaluating =>
          /\ (Current.operation \in JumpOps /\ Current.argument = 0) =>
                (machineStatus' = "ERRORED" /\ currentInstruct' = currentInstruct)
          /\ LET ev == evaluate(VM, Current)
             IN  ev.vm.machineStatus = "RUNNING" => ev.jump # 0]_vars

\* JUMPZERO 0 has ended ERRORED with a non-zero accumulator
C10_Witness ==
    /\ machineStatus = "ERRORED" /\ life.ran
    /\ currentInstruct < Len(instructMem)
    /\ Current = Instruction("JUMPZERO", 0)
    /\ accumulator # 0

(***************************************************************************)
(* C11, as claimed: CHECKMEM a on a memory of n cells ends ERRORED exactly *)
(* when n < a, for negative a as well; when n >= a the accumulator and the *)
(* data memory stay as they are and the cursor moves on by one (the status *)
(* staying RUNNING unless that was the last instruction).                  *)
(***************************************************************************)
C11_AsClaimed ==
    [][(Evaluating /\ Current.operation = "CHECKMEM") =>
          LET a == Current.argument
              n == Len(dataMem)
          IN  /\ machineStatus' = "ERRORED" <=> n < a
              /\ n >= a =>
                    /\ accumulator' = accumulator
                    /\ dataMem' = dataMem
                    /\ currentInstruct' = currentInstruct + 1
                    /\ machineStatus' =
                          IF currentInstruct + 1 = Len(instructMem)
                          THEN "HALTED" ELSE "RUNNING"]_vars

\* CHECKMEM with a negative argument has ended ERRORED on a memory that is
\* not shorter than the argument
C11_Witness ==
    /\ machineStatus = "ERRORED" /\ life.ran
    /\ currentInstruct < Len(instructMem)
    /\ Current.operation = "CHECKMEM"
    /\ Current.argument < 0
    /\ Len(dataMem) >= Current.argument

(***************************************************************************)
(* C12: once run has been accepted on [CLEAR, JUMPZERO -1], the status is  *)
(* RUNNING in every state, never HALTED and never ERRORED; after the first *)
(* evaluation the accumulator is 0; the cursor is on index 0 before every  *)
(* even-numbered evaluation and on index 1 before every odd-numbered one;  *)
(* and nothing else moves (the instructions, the data memory and the       *)
(* output stay), so the machine is in the same two states over and over    *)
(* and the loop of run never exits.                                        *)
(***************************************************************************)
RunningLoop == life.ran /\ life.prog = Decoded(ExampleLoop)

C12_LoopNeverEnds ==
    RunningLoop =>
        /\ machineStatus = "RUNNING"
        /\ lastCall.ret = "PENDING"
        /\ evals >= 1 => accumulator = 0
        /\ currentInstruct = evals % 2
        /\ instructMem = Decoded(ExampleLoop)
        /\ dataMem = life.mem
        /\ output = <<>>

\* the loop has gone round once and is back on JUMPZERO -1
C12_Witness ==
    /\ RunningLoop
    /\ evals >= 3
    /\ machineStatus = "RUNNING"
    /\ currentInstruct = 1
    /\ Current = Instruction("JUMPZERO", -1)

(***************************************************************************)
(* C13: OUTPUT appends the accumulator to the output, after what was       *)
(* emitted before, and leaves the accumulator and the data memory as they  *)
(* are; the status stays RUNNING and the cursor moves on by one (HALTED    *)
(* only where OUTPUT was the last instruction); no other instruction       *)
(* emits.  [AT 0, OUTPUT, HALT] on a memory whose first cell holds v ends  *)
(* HALTED having emitted exactly v, with the memory as it was given and    *)
(* accumulator v.                                                          *)
(***************************************************************************)
RanOutput == life.ran /\ life.prog = Decoded(ExampleOutput) /\ life.mem # <<>>

C13_OutputEmits ==
    [][/\ Evaluating =>
            IF Current.operation = "OUTPUT"
            THEN /\ output' = Append(output, accumulator)
                 /\ accumulator' = accumulator
                 /\ dataMem' = dataMem
                 /\ currentInstruct' = currentInstruct + 1
                 /\ machineStatus' =
                       IF currentInstruct + 1 = Len(instructMem)
                       THEN "HALTED" ELSE "RUNNING"
            ELSE output' = output
       /\ (RanOutput' /\ machineStatus' # "RUNNING") =>
            /\ machineStatus' = "HALTED"
            /\ lastCall'.ret = "HALTED"
            /\ output' = <<life'.mem[1]>>
            /\ dataMem' = life'.mem
            /\ accumulator' = life'.mem[1]
            /\ evals' = 3]_vars

\* [AT 0, OUTPUT, HALT] has halted on the memory [42] having emitted 42
C13_Witness ==
    /\ RanOutput /\ life.mem = <<42>>
    /\ machineStatus = "HALTED"
    /\ output = <<42>> /\ accumulator = 42 /\ dataMem = <<42>>

(***************************************************************************)
(* C14: the step of an instruction is its argument for a jump that is      *)
(* taken and 1 otherwise.  An instruction other than HALT that does not    *)
(* end ERRORED and has a positive step s at index i of n instructions      *)
(* leaves the cursor on i + s with the status RUNNING when i + s < n, and  *)
(* on n, past the end, with the status HALTED when i + s >= n.  An         *)
(* evaluated HALT ends HALTED with the cursor still on it.  The loop ends  *)
(* HALTED in these two cases only, run then returns HALTED, and a HALTED   *)
(* machine evaluates nothing more.                                         *)
(***************************************************************************)
Taken(inst, acc) ==
    \/ inst.operation = "JUMPREL"
    \/ inst.operation = "JUMPZERO" /\ acc = 0
    \/ inst.operation = "JUMPNZERO" /\ acc # 0

Step(inst, acc) == IF Taken(inst, acc) THEN inst.argument ELSE 1

C14_HaltsAtEndOrHalt ==
    [][/\ Evaluating =>
            LET i == currentInstruct
                n == Len(instructMem)
                s == Step(Current, accumulator)
                ok == machineStatus' # "ERRORED"
            IN  /\ (Current.operation # "HALT" /\ ok /\ s > 0 /\ i + s < n) =>
                      (currentInstruct' = i + s /\ machineStatus' = "RUNNING")
                /\ (Current.operation # "HALT" /\ ok /\ s > 0 /\ i + s >= n) =>
                      (currentInstruct' = n /\ machineStatus' = "HALTED")
                /\ Current.operation = "HALT" =>
                      (currentInstruct' = i /\ machineStatus' = "HALTED")
                /\ machineStatus' = "HALTED" <=>
                      (Current.operation = "HALT" \/ (ok /\ s > 0 /\ i + s >= n))
                /\ machineStatus' = "HALTED" => lastCall'.ret = "HALTED"
       /\ (machineStatus = "HALTED" /\ machineStatus' = "HALTED") =>
            (evals' = evals /\ output' = output /\ currentInstruct' = currentInstruct)]_vars

\* JUMPREL 2, alone in its program, has stepped over the end and halted
C14_Witness ==
    /\ life.ran /\ machineStatus = "HALTED"
    /\ instructMem = <<Instruction("JUMPREL", 2)>>
    /\ currentInstruct = 1 /\ evals = 1
    /\ lastCall.ret = "HALTED"

(***************************************************************************)
(* C15: an instruction that does not end ERRORED and has a negative step   *)
(* -k at index i leaves the cursor on max(0, i - k): on the first          *)
(* instruction when k > i.  The status stays RUNNING, neither HALTED nor   *)
(* ERRORED, the accumulator and the data memory are untouched, and the     *)
(* next instruction evaluated is the one the cursor is on.                 *)
(***************************************************************************)
Max(a, b) == IF a >= b THEN a ELSE b

C15_BackwardClamps ==
    [][Evaluating =>
          LET i == currentInstruct
              s == Step(Current, accumulator)
          IN  (machineStatus' # "ERRORED" /\ s < 0) =>
                 /\ currentInstruct' = Max(0, i + s)
                 /\ -s > i => currentInstruct' = 0
                 /\ machineStatus' = "RUNNING"
                 /\ lastCall'.ret = "PENDING"
                 /\ accumulator' = accumulator
                 /\ dataMem' = dataMem
                 /\ Evaluating'
                 /\ Current' = instructMem[Max(0, i + s) + 1]]_vars

\* JUMPREL -2, the second of two instructions, has been evaluated and the
\* run is back on the first
C15_Witness ==
    /\ life.ran /\ machineStatus = "RUNNING"
    /\ Len(instructMem) = 2
    /\ instructMem[1].operation = "ADDCONST"
    /\ instructMem[2] = Instruction("JUMPREL", -2)
    /\ evals = 2 /\ currentInstruct = 0

(***************************************************************************)
(* C16: with a non-zero argument d, JUMPREL yields the step d, JUMPZERO    *)
(* yields d when the accumulator is 0 and 1 otherwise, JUMPNZERO yields d  *)
(* when the accumulator is not 0 and 1 otherwise; none of the three ends   *)
(* ERRORED or changes the accumulator or the data memory, and the cursor   *)
(* moves by the step as far as the two ends of the program allow.  Every   *)
(* other instruction but HALT that does not end ERRORED yields the step 1  *)
(* and moves the cursor on by exactly one.                                 *)
(***************************************************************************)
Min(a, b) == IF a <= b THEN a ELSE b

C16_JumpSteps ==
    [][Evaluating =>
          LET i  == currentInstruct
              n  == Len(instructMem)
              op == Current.operation
              d  == Current.argument
              ev == evaluate(VM, Current)
          IN  /\ (op = "JUMPREL" /\ d # 0) => ev.jump = d
              /\ (op = "JUMPZERO" /\ d # 0) =>
                    ev.jump = IF accumulator = 0 THEN d ELSE 1
              /\ (op = "JUMPNZERO" /\ d # 0) =>
                    ev.jump = IF accumulator # 0 THEN d ELSE 1
              /\ (op \in JumpOps /\ d # 0) =>
                    /\ machineStatus' # "ERRORED"
                    /\ accumulator' = accumulator
                    /\ dataMem' = dataMem
                    /\ currentInstruct' = Max(0, Min(n, i + ev.jump))
              /\ (op \notin JumpOps /\ op # "HALT" /\ machineStatus' # "ERRORED") =>
                    /\ ev.jump = 1
                    /\ currentInstruct' = i + 1]_vars

\* JUMPNZERO 2 after CLEAR has fallen through to the next instruction
C16_Witness ==
    /\ life.ran /\ machineStatus = "RUNNING"
    /\ Len(instructMem) = 3
    /\ instructMem[1] = Instruction("CLEAR", 0)
    /\ instructMem[2] = Instruction("JUMPNZERO", 2)
    /\ accumulator = 0
    /\ evals = 2 /\ currentInstruct = 2

(***************************************************************************)
(* C17: SET a puts the accumulator in cell a, INSERT a puts it before cell *)
(* a and moves the later cells up by one, ERASE a removes cell a and moves *)
(* the later cells down by one; every other instruction leaves the data    *)
(* memory as it is.  So after each instruction of a script (a program of   *)
(* SET, INSERT and ERASE within bounds and of CLEAR, ADDCONST, AT, NOOP    *)
(* and OUTPUT) getDataMem answers the initial memory with the script's     *)
(* operations applied in order, and the script ends HALTED.                *)
(***************************************************************************)
RefSet(v, a, x) == [j \in 1 .. Len(v) |-> IF j = a + 1 THEN x ELSE v[j]]

RefInsert(v, a, x) ==
    [j \in 1 .. Len(v) + 1 |-> IF j <= a THEN v[j] ELSE IF j = a + 1 THEN x ELSE v[j - 1]]

RefErase(v, a) == [j \in 1 .. Len(v) - 1 |-> IF j <= a THEN v[j] ELSE v[j + 1]]

\* the accumulator and the memory after the first k instructions of a
\* script, and whether all of them were script instructions within bounds
RECURSIVE Script(_, _, _)
Script(prog, mem, k) ==
    IF k = 0
    THEN [acc |-> 0, mem |-> mem, ok |-> TRUE]
    ELSE LET p  == Script(prog, mem, k - 1)
             op == prog[k].operation
             a  == prog[k].argument
             n  == Len(p.mem)
             bad == [p EXCEPT !.ok = FALSE]
         IN  IF ~p.ok THEN bad
             ELSE CASE op = "SET" ->
                         IF a >= 0 /\ a < n
                         THEN [p EXCEPT !.mem = RefSet(p.mem, a, p.acc)] ELSE bad
                    [] op = "INSERT" ->
                         IF a >= 0 /\ a <= n
                         THEN [p EXCEPT !.mem = RefInsert(p.mem, a, p.acc)] ELSE bad
                    [] op = "ERASE" ->
                         IF a >= 0 /\ a < n
                         THEN [p EXCEPT !.mem = RefErase(p.mem, a)] ELSE bad
                    [] op = "AT" ->
                         IF a >= 0 /\ a < n
                         THEN [p EXCEPT !.acc = p.mem[a + 1]] ELSE bad
                    [] op = "CLEAR" -> [p EXCEPT !.acc = 0]
                    [] op = "ADDCONST" -> [p EXCEPT !.acc = @ + a]
                    [] op \in {"NOOP", "OUTPUT"} -> p
                    [] OTHER -> bad

RanScript == life.ran /\ Script(life.prog, life.mem, Len(life.prog)).ok

C17_MemoryFollowsScript ==
    [][/\ Evaluating =>
            LET op == Current.operation
                a  == Current.argument
                ok == machineStatus' # "ERRORED"
            IN  /\ (op = "SET" /\ ok) => dataMem' = RefSet(dataMem, a, accumulator)
                /\ (op = "INSERT" /\ ok) =>
                      (dataMem' = RefInsert(dataMem, a, accumulator)
                         /\ Len(dataMem') = Len(dataMem) + 1)
                /\ (op = "ERASE" /\ ok) =>
                      (dataMem' = RefErase(dataMem, a)
                         /\ Len(dataMem') = Len(dataMem) - 1)
                /\ (op \notin {"SET", "INSERT", "ERASE"} \/ ~ok) => dataMem' = dataMem
       /\ RanScript' =>
            /\ getDataMem(VM)' = Script(life'.prog, life'.mem, evals').mem
            /\ accumulator' = Script(life'.prog, life'.mem, evals').acc
            /\ machineStatus' = IF evals' = Len(life'.prog) THEN "HALTED" ELSE "RUNNING"]_vars

\* the script [INSERT 0, ERASE 1] has ended on the memory [-3, 0], which it
\* left as [0, 0]
C17_Witness ==
    /\ RanScript /\ machineStatus = "HALTED"
    /\ life.prog = <<Instruction("INSERT", 0), Instruction("ERASE", 1)>>
    /\ life.mem = <<-3, 0>>
    /\ getDataMem(VM) = <<0, 0>>

(***************************************************************************)
(* C18: a READY machine holds at least one instruction, and whenever the   *)
(* loop of run is about to fetch (the status is RUNNING) the cursor is on  *)
(* an instruction, at an index from 0 to the program's length less one, so *)
(* what is fetched is that instruction and end() is never dereferenced.    *)
(***************************************************************************)
C18_CursorValid ==
    /\ machineStatus = "READY" => instructMem # <<>>
    /\ machineStatus = "RUNNING" =>
          /\ currentInstruct >= 0
          /\ currentInstruct < Len(instructMem)
          /\ Fetched = {instructMem[currentInstruct + 1]}

\* a run of three instructions has jumped back from the last to the first
C18_Witness ==
    /\ machineStatus = "RUNNING" /\ life.ran
    /\ Len(instructMem) = 3
    /\ instructMem[3] = Instruction("JUMPREL", -2)
    /\ evals = 3 /\ currentInstruct = 0

(***************************************************************************)
(* C19: a run of a program whose jumps all have positive arguments moves   *)
(* the cursor up with every instruction that leaves it RUNNING, so it has  *)
(* evaluated k instructions with the cursor at k or beyond, never more     *)
(* instructions than the program holds, and it ends HALTED or ERRORED.     *)
(***************************************************************************)
ForwardOnly(prog) ==
    \A i \in 1 .. Len(prog) : prog[i].operation \in JumpOps => prog[i].argument > 0

RunningForward == machineStatus = "RUNNING" /\ ForwardOnly(instructMem)

C19_ForwardTerminates ==
    /\ [](life.ran /\ ForwardOnly(instructMem) =>
             /\ evals <= Len(instructMem)
             /\ machineStatus = "RUNNING" => currentInstruct >= evals)
    /\ [][(RunningForward /\ machineStatus' = "RUNNING") =>
             currentInstruct' > currentInstruct]_vars
    /\ (RunningForward ~> machineStatus \in {"HALTED", "ERRORED"})

\* a program of three instructions with a forward jump has halted after two
\* evaluations
C19_Witness ==
    /\ life.ran /\ ForwardOnly(instructMem)
    /\ Len(instructMem) = 3
    /\ instructMem[2] = Instruction("JUMPZERO", 2)
    /\ machineStatus = "HALTED" /\ evals = 2

(***************************************************************************)
(* C20: whatever calls were made, a WAITING machine holds no instruction   *)
(* and its accumulator is 0; its data memory is the one the latest load    *)
(* since the reset installed (empty if there was none), so it need not be  *)
(* empty.                                                                  *)
(***************************************************************************)
C20_WaitingIsEmpty ==
    machineStatus = "WAITING" =>
        /\ instructMem = <<>>
        /\ accumulator = 0
        /\ dataMem = life.mem

\* a load of a source of comments only, after an earlier run, has left the
\* machine WAITING with the memory it was given
C20_Witness ==
    /\ machineStatus = "WAITING" /\ life.reused
    /\ LoadReturned /\ lastCall.ret = "WAITING"
    /\ lastCall.src # <<>>
    /\ dataMem = <<42>>
====
